---- MODULE Spec2Model ----
(***************************************************************************)
(* Model of daylight-flight (src/src/App.jsx): a React component that      *)
(* fetches and parses the OpenFlights airport table, runs a frame loop     *)
(* that re-orients the day/night clip plane from the sun's position, and   *)
(* draws a great-circle line between two airports.                         *)
(*                                                                         *)
(* Numbers are fixed point: angles in tenths of a degree, lengths and      *)
(* trigonometric values in thousandths, time in hours counted from         *)
(* "January 0" (new Date(year, 0, 0)) of the current year.  Strings are    *)
(* tuples of one-character strings.                                        *)
(***************************************************************************)
EXTENDS Integers, Sequences, FiniteSets, TLC

VARIABLES
    airports,        \* useState(null), line 13: Null or <<table>>
    fetchState,      \* the fetch promise of line 24: "pending" | "ok" | "failed"
    departureCode,   \* useState(''), line 11
    arrivalCode,     \* useState(''), line 12
    flightPath,      \* useState(null), line 14: Null or <<[departure, arrival]>>
    flightLineRef,   \* useRef(null), line 18: Null or <<line>>
    sceneLines,      \* the THREE.Line objects held by the scene (line 349)
    disposed,        \* ids of the lines whose geometry and material were disposed
    lineCount,       \* number of THREE.Line objects created so far (object identity)
    lastTrigger,     \* history: codes of the last trigger in which both resolved
    console,         \* the last message written to the console ("" for none)
    mounted,         \* the component is mounted (the cleanup of line 274 has not run)
    rendererDisposed,\* renderer.dispose() was called (line 276)
    resizeListener,  \* window 'resize' listener registered (lines 271, 275)
    loopStarted,     \* animate() of line 262 was called
    rafPending,      \* a requestAnimationFrame(animate) callback is scheduled
    startTime,       \* const startTime = Date.now(), line 203
    now,             \* the wall clock read by Date.now() / new Date()
    simulatedTime,   \* useState(new Date()), line 10
    sunTime,         \* history: the timestamp of the last sun computation
    sunLightPosition,\* sunLight.position, lines 178 and 234
    clipNormal,      \* clipPlane.normal, lines 182 and 237
    clipConstant,    \* clipPlane.constant, line 182
    lateFrames,      \* history: frames processed after the cleanup ran (saturating)
    lateRenders,     \* history: render calls on the disposed renderer (saturating)
    pIn,             \* input of the pure function under check
    pOut             \* its result

vars == <<airports, fetchState, departureCode, arrivalCode, flightPath,
          flightLineRef, sceneLines, disposed, lineCount, lastTrigger, console,
          mounted, rendererDisposed, resizeListener, loopStarted, rafPending,
          startTime, now, simulatedTime, sunTime, sunLightPosition, clipNormal,
          clipConstant, lateFrames, lateRenders, pIn, pOut>>

(***************************************************************************)
(* Bounds of the model.                                                    *)
(***************************************************************************)
MaxRows == 2          \* rows of a dataset
MaxLines == 2         \* THREE.Line objects created in one run
MaxElapsed == 1       \* hours of wall-clock time that pass after start
MaxLate == 1          \* saturation of the after-teardown counters

Null == <<>>
Some(x) == <<x>>

(***************************************************************************)
(* Numbers.  NaN stands for every non-finite JavaScript number.            *)
(***************************************************************************)
NaN == -1000000000

RECURSIVE IsqrtIter(_, _, _)
IsqrtIter(n, lo, hi) ==
    IF lo >= hi THEN lo
    ELSE LET mid == (lo + hi + 1) \div 2
         IN  IF mid * mid <= n THEN IsqrtIter(n, mid, hi)
                               ELSE IsqrtIter(n, lo, mid - 1)

\* Math.sqrt on a non-negative integer, rounded down
Sqrt(n) == IF n = NaN THEN NaN ELSE IsqrtIter(n, 0, 40000)

\* Math.sin of an angle in tenths of a degree, in thousandths
\* (Bhaskara's rational approximation on [0, 180] degrees, odd and periodic)
SinHalf(y) ==
    LET p == y * (1800 - y)
    IN  (4 * p) \div ((4050000 - p) \div 1000)

Sin(x) ==
    IF x = NaN THEN NaN
    ELSE LET y == x % 3600
         IN  IF y <= 1800 THEN SinHalf(y) ELSE -SinHalf(y - 1800)

\* Math.cos
Cos(x) == IF x = NaN THEN NaN ELSE Sin(x + 900)

RECURSIVE AcosIter(_, _, _)
AcosIter(c, lo, hi) ==
    IF lo >= hi THEN lo
    ELSE LET mid == (lo + hi) \div 2
         IN  IF Cos(mid) <= c THEN AcosIter(c, lo, mid)
                              ELSE AcosIter(c, mid + 1, hi)

\* Math.acos of a value in [-1000, 1000], in tenths of a degree
Acos(c) == IF c = NaN THEN NaN ELSE AcosIter(c, 0, 1800)

\* a * b and a / b on thousandths; JavaScript division never throws
Mul(a, b) == IF a = NaN \/ b = NaN THEN NaN ELSE (a * b) \div 1000
Div(a, b) == IF a = NaN \/ b = NaN \/ b = 0 THEN NaN ELSE (a * 1000) \div b
Add(a, b) == IF a = NaN \/ b = NaN THEN NaN ELSE a + b
Neg(a) == IF a = NaN THEN NaN ELSE -a

(***************************************************************************)
(* THREE.Vector3 as <<x, y, z>>, in thousandths.                           *)
(***************************************************************************)
NumPoints == 100      \* const numPoints = 100
PathRadius == 2010    \* const radius = 2.01
UnitRadius == 1000    \* latLonToVector3(..., 1)
LightDistance == 10   \* multiplyScalar(10)
DegreesPerHour == 150 \* hoursSinceNoon * 15, in tenths of a degree
HoursPerDay == 24     \* 86400000 ms

\* Vector3.dot and Vector3.lengthSq
Dot(a, b) == Add(Add(Mul(a[1], b[1]), Mul(a[2], b[2])), Mul(a[3], b[3]))
LengthSq(a) == Dot(a, a)

\* Vector3.length: Math.sqrt(x*x + y*y + z*z)
Length(a) ==
    IF a[1] = NaN \/ a[2] = NaN \/ a[3] = NaN THEN NaN
    ELSE Sqrt(a[1] * a[1] + a[2] * a[2] + a[3] * a[3])

\* Vector3.multiplyScalar, with the scalar in thousandths
MultiplyScalar(a, s) == <<Mul(a[1], s), Mul(a[2], s), Mul(a[3], s)>>

\* Vector3.multiplyScalar with a whole-number scalar
MultiplyWhole(a, k) ==
    [i \in 1..3 |-> IF a[i] = NaN THEN NaN ELSE a[i] * k]

\* Vector3.negate
Negate(a) == <<Neg(a[1]), Neg(a[2]), Neg(a[3])>>

\* Vector3.normalize: divideScalar(this.length() || 1)
Normalize(a) ==
    LET len == Length(a)
        d == IF len = NaN \/ len = 0 THEN 1000 ELSE len
    IN  <<Div(a[1], d), Div(a[2], d), Div(a[3], d)>>

\* Vector3.angleTo: acos(clamp(dot / sqrt(lengthSq * lengthSq), -1, 1)),
\* pi/2 when the denominator is zero
AngleTo(a, b) ==
    LET la == LengthSq(a)
        lb == LengthSq(b)
        denominator == IF la = NaN \/ lb = NaN THEN NaN ELSE Sqrt(la * lb)
        theta == Div(Dot(a, b), denominator)
        clamped == IF theta = NaN THEN NaN
                   ELSE IF theta > 1000 THEN 1000
                   ELSE IF theta < -1000 THEN -1000 ELSE theta
    IN  IF denominator = 0 THEN 900 ELSE Acos(clamped)

\* latLonToVector3 (and the same formula inlined for the sun direction)
latLonToVector3(lat, lon, radius) ==
    LET phi == IF lat = NaN THEN NaN ELSE 900 - lat
        theta == IF lon = NaN THEN NaN ELSE lon + 1800
    IN  << Neg(Mul(Mul(radius, Sin(phi)), Cos(theta))),
           Mul(radius, Cos(phi)),
           Mul(Mul(radius, Sin(phi)), Sin(theta)) >>

(***************************************************************************)
(* Great-circle interpolation of the flight-path effect.                   *)
(***************************************************************************)
\* SlerpPoint without the test of angle === 0
SlerpPointNoGuard(start, end, angle, i) ==
    LET fraction == (i * 1000) \div NumPoints
        sinAngle == Sin(angle)
        a == Div(Sin(Mul(1000 - fraction, angle)), sinAngle)
        b == Div(Sin(Mul(fraction, angle)), sinAngle)
        raw == << Add(Mul(a, start[1]), Mul(b, end[1])),
                  Add(Mul(a, start[2]), Mul(b, end[2])),
                  Add(Mul(a, start[3]), Mul(b, end[3])) >>
    IN  [ point |-> MultiplyScalar(Normalize(raw), PathRadius),
          quotients |-> 2 ]

\* one iteration of the loop: the point pushed, and how many quotients by
\* sin(angle) the iteration formed.  For antipodal points Math.sin(Math.PI)
\* is about 1.2e-16, so the quotients are finite but carry no digits; here
\* sin is 0 and the point is NaN
SlerpPoint(start, end, angle, i) ==
    LET fraction == (i * 1000) \div NumPoints
        sinAngle == Sin(angle)
        a == Div(Sin(Mul(1000 - fraction, angle)), sinAngle)
        b == Div(Sin(Mul(fraction, angle)), sinAngle)
        raw == IF angle = 0
               THEN start
               ELSE << Add(Mul(a, start[1]), Mul(b, end[1])),
                       Add(Mul(a, start[2]), Mul(b, end[2])),
                       Add(Mul(a, start[3]), Mul(b, end[3])) >>
    IN  [ point |-> MultiplyScalar(Normalize(raw), PathRadius),
          quotients |-> IF angle = 0 THEN 0 ELSE 2 ]

RECURSIVE SumQuotients(_, _, _)
SumQuotients(steps, lo, hi) ==
    IF lo = hi THEN steps[lo].quotients
    ELSE LET mid == (lo + hi) \div 2
         IN  SumQuotients(steps, lo, mid) + SumQuotients(steps, mid + 1, hi)

\* lines 306-339: the points of the line for a departure and an arrival
GreatCircle(departure, arrival) ==
    LET start == latLonToVector3(departure.lat, departure.lon, UnitRadius)
        end == latLonToVector3(arrival.lat, arrival.lon, UnitRadius)
        angle == AngleTo(start, end)
        steps == [k \in 1..(NumPoints + 1) |-> SlerpPoint(start, end, angle, k - 1)]
    IN  [ start |-> start,
          angle |-> angle,
          points |-> [k \in 1..(NumPoints + 1) |-> steps[k].point],
          quotients |-> SumQuotients(steps, 1, NumPoints + 1) ]

(***************************************************************************)
(* The sun.                                                                *)
(***************************************************************************)
\* SunCalc.getTimes(t, 0, 0).solarNoon: the sun's transit of the Greenwich
\* meridian on the UTC day of t (the equation of time is left out)
SolarNoon(t) == HoursPerDay * (t \div HoursPerDay) + 12

\* hoursSinceNoon * 15
SubsolarLongitude(t) == (t - SolarNoon(t)) * DegreesPerHour

\* Math.floor((t - new Date(year, 0, 0)) / 86400000), in a UTC time zone
DayOfYear(t) == t \div HoursPerDay

\* -23.44 * Math.cos((2 * Math.PI / 365) * (dayOfYear + 10))
SubsolarLatitude(t) ==
    -((2344 * Cos((3600 * (DayOfYear(t) + 10)) \div 365)) \div 10000)

\* the sunDirection vector of lines 161-168 and 224-231
SunDirection(t) ==
    latLonToVector3(SubsolarLatitude(t), SubsolarLongitude(t), UnitRadius)

(***************************************************************************)
(* Strings and the parse of the airport dataset.                           *)
(***************************************************************************)
Digits == <<"0", "1", "2", "3", "4", "5", "6", "7", "8", "9">>
Lower == <<"a", "b", "c", "d", "e", "f", "g", "h", "i", "j", "k", "l", "m",
            "n", "o", "p", "q", "r", "s", "t", "u", "v", "w", "x", "y", "z">>
Upper == <<"A", "B", "C", "D", "E", "F", "G", "H", "I", "J", "K", "L", "M",
            "N", "O", "P", "Q", "R", "S", "T", "U", "V", "W", "X", "Y", "Z">>

IsDigit(c) == \E i \in 1..Len(Digits) : Digits[i] = c
DigitValue(c) == (CHOOSE i \in 1..Len(Digits) : Digits[i] = c) - 1

\* String.prototype.toUpperCase
ToUpperCase(s) ==
    [i \in 1..Len(s) |->
        IF \E j \in 1..Len(Lower) : Lower[j] = s[i]
        THEN Upper[CHOOSE j \in 1..Len(Lower) : Lower[j] = s[i]]
        ELSE s[i]]

\* String.prototype.split(sep): the pieces between the separators, in
\* order; ''.split(sep) is ['']
Split(s, sep) ==
    LET at == {i \in 1..Len(s) : s[i] = sep}
        \* the position of the k-th separator; 0 and Len(s) + 1 bracket them
        Nth(k) == IF k = 0 THEN 0
                  ELSE IF k > Cardinality(at) THEN Len(s) + 1
                  ELSE CHOOSE i \in at : Cardinality({j \in at : j < i}) = k - 1
    IN  [k \in 1..(Cardinality(at) + 1) |-> SubSeq(s, Nth(k - 1) + 1, Nth(k) - 1)]

\* s.replace(/"/g, '')
StripQuotes(s) == SelectSeq(s, LAMBDA c : c # "\"")

RECURSIVE LeadingDigits(_)
LeadingDigits(s) ==
    IF s # <<>> /\ IsDigit(s[1]) THEN <<s[1]>> \o LeadingDigits(Tail(s)) ELSE <<>>

RECURSIVE DigitsValue(_)
DigitsValue(ds) ==
    IF ds = <<>> THEN 0
    ELSE 10 * DigitsValue(SubSeq(ds, 1, Len(ds) - 1)) + DigitValue(ds[Len(ds)])

RECURSIVE TrimStart(_)
TrimStart(s) == IF s # <<>> /\ s[1] = " " THEN TrimStart(Tail(s)) ELSE s

\* parseFloat: leading blanks, a sign, digits, a fraction; NaN when the text
\* starts with no number.  The value is in tenths: one fraction digit is
\* kept.  Exponents are not modelled.
ParseFloat(s) ==
    LET t == TrimStart(s)
        signed == t # <<>> /\ t[1] \in {"-", "+"}
        sign == IF t # <<>> /\ t[1] = "-" THEN -1 ELSE 1
        body == IF signed THEN Tail(t) ELSE t
        int == LeadingDigits(body)
        rest == SubSeq(body, Len(int) + 1, Len(body))
        frac == IF rest # <<>> /\ rest[1] = "." THEN LeadingDigits(Tail(rest)) ELSE <<>>
    IN  IF int = <<>> /\ frac = <<>> THEN NaN
        ELSE sign * (10 * DigitsValue(int)
                     + (IF frac = <<>> THEN 0 ELSE DigitValue(frac[1])))

\* ParseLine without the test of the code's length
ParseLineNoLength(airportMap, line) ==
    LET raw == Split(line, ",")
        parts == [i \in 1..Len(raw) |-> StripQuotes(raw[i])]
    IN  IF Len(parts) >= 8 /\ parts[5] # <<>> /\ parts[5] # <<"\\", "N">>
        THEN [k \in DOMAIN airportMap \cup {parts[5]} |->
                 IF k = parts[5]
                 THEN [name |-> parts[2], city |-> parts[3],
                       lat |-> ParseFloat(parts[7]), lon |-> ParseFloat(parts[8])]
                 ELSE airportMap[k]]
        ELSE airportMap

\* ParseLine keeping the first record of a code instead of the last
ParseLineFirstWins(airportMap, line) ==
    LET raw == Split(line, ",")
        parts == [i \in 1..Len(raw) |-> StripQuotes(raw[i])]
    IN  IF Len(parts) >= 8 /\ parts[5] # <<>> /\ parts[5] # <<"\\", "N">>
           /\ Len(parts[5]) = 3
        THEN [k \in DOMAIN airportMap \cup {parts[5]} |->
                 IF k \in DOMAIN airportMap
                 THEN airportMap[k]
                 ELSE [name |-> parts[2], city |-> parts[3],
                       lat |-> ParseFloat(parts[7]), lon |-> ParseFloat(parts[8])]]
        ELSE airportMap

\* the body of lines.forEach (lines 31-45): the table after one more line
ParseLine(airportMap, line) ==
    LET raw == Split(line, ",")
        parts == [i \in 1..Len(raw) |-> StripQuotes(raw[i])]
    IN  IF Len(parts) >= 8
        THEN LET iata == parts[5]
                 name == parts[2]
                 city == parts[3]
                 lat == ParseFloat(parts[7])
                 lon == ParseFloat(parts[8])
             IN  IF iata # <<>> /\ iata # <<"\\", "N">> /\ Len(iata) = 3
                 THEN [k \in DOMAIN airportMap \cup {iata} |->
                          IF k = iata
                          THEN [name |-> name, city |-> city, lat |-> lat, lon |-> lon]
                          ELSE airportMap[k]]
                 ELSE airportMap
        ELSE airportMap

RECURSIVE ParseLines(_, _, _)
ParseLines(airportMap, lines, i) ==
    IF i > Len(lines) THEN airportMap
    ELSE ParseLines(ParseLine(airportMap, lines[i]), lines, i + 1)

\* lines 28-47: data.split('\n'), then the forEach over an empty airportMap
ParseAirports(data) == ParseLines(<<>>, Split(data, "\n"), 1)

(***************************************************************************)
(* The datasets the fetch may deliver.  A row is written as its            *)
(* comma-separated pieces, quotes included; the text is their join.        *)
(***************************************************************************)
Q(s) == <<"\"">> \o s \o <<"\"">>

RowJFK == << <<"1">>, Q(<<"K">>), Q(<<"N">>), Q(<<"U">>), Q(<<"J", "F", "K">>),
             Q(<<"K", "J">>), <<"4", "0", ".", "6">>, <<"-", "7", "3", ".", "7">> >>
RowNRT == << <<"2">>, Q(<<"T">>), Q(<<"T">>), Q(<<"J">>), Q(<<"N", "R", "T">>),
             Q(<<"R", "J">>), <<"3", "5", ".", "7">>, <<"1", "4", "0", ".", "3">>,
             <<"1", "3", "5">> >>
\* a second row for JFK with another record
RowJFK2 == << <<"3">>, Q(<<"X">>), Q(<<"Z">>), Q(<<"U">>), Q(<<"J", "F", "K">>),
              Q(<<"K", "J">>), <<"0">>, <<"0">> >>
\* seven pieces only
RowShort == << <<"4">>, Q(<<"B">>), Q(<<"B">>), Q(<<"U">>), Q(<<"J", "F", "K">>),
               Q(<<"K", "B">>), <<"9">> >>
\* no IATA code: \N
RowNoCode == << <<"5">>, Q(<<"A">>), Q(<<"A">>), Q(<<"U">>), <<"\\", "N">>,
                Q(<<"K", "A">>), <<"1">>, <<"1">> >>
\* a two-character, a four-character and an empty code
RowCode2 == << <<"6">>, Q(<<"A">>), Q(<<"A">>), Q(<<"U">>), Q(<<"N", "R">>),
               Q(<<"K", "A">>), <<"2">>, <<"2">> >>
RowCode4 == << <<"7">>, Q(<<"A">>), Q(<<"A">>), Q(<<"U">>), Q(<<"N", "R", "T", "X">>),
               Q(<<"K", "A">>), <<"3">>, <<"3">> >>
RowCode0 == << <<"8">>, Q(<<"A">>), Q(<<"A">>), Q(<<"U">>), Q(<<>>),
               Q(<<"K", "A">>), <<"4">>, <<"4">> >>
\* a name with a comma inside its quotes: nine pieces, the country in the
\* fifth
RowComma == << <<"9">>, <<"\"", "A">>, <<" ", "B", "\"">>, Q(<<"C">>), Q(<<"U", "S">>),
               Q(<<"N", "R", "T">>), Q(<<"K", "A">>), <<"5">>, <<"5">> >>
\* three characters that are not all letters, and coordinates that are no numbers
RowOdd == << <<"1", "0">>, Q(<<"O">>), Q(<<"O">>), Q(<<"U">>), Q(<<"1", "A", "2">>),
             Q(<<"K", "O">>), <<"x">>, <<>> >>
RowEmpty == << <<>> >>

RowPool == {RowJFK, RowNRT, RowJFK2, RowShort, RowNoCode, RowCode2, RowCode4,
            RowCode0, RowComma, RowOdd, RowEmpty}

Datasets == UNION {[1..n -> RowPool] : n \in 0..MaxRows}

RECURSIVE Join(_, _)
Join(pieces, sep) ==
    IF pieces = <<>> THEN <<>>
    ELSE IF Len(pieces) = 1 THEN pieces[1]
    ELSE pieces[1] \o <<sep>> \o Join(Tail(pieces), sep)

\* the text of the response for a sequence of rows
DataText(rows) == Join([i \in 1..Len(rows) |-> Join(rows[i], ",")], "\n")

\* the datasets drawn on by the component's run
MainDatasets == { <<RowJFK, RowShort, RowNRT>>,
                  <<RowJFK, RowOdd, RowJFK2>>,
                  <<RowEmpty>> }

(***************************************************************************)
(* The component.                                                          *)
(***************************************************************************)
\* the values the two text inputs may deliver to onChange (maxLength 3)
InputValues == { <<>>, <<"j", "f", "k">>, <<"n", "r", "t">> }

\* the hours at which the page may be opened: before noon on midsummer's
\* day, and the last hour of that day
StartTimes == { 172 * HoursPerDay + 10, 172 * HoursPerDay + 23 }

\* lines 148-182: the light and the clip plane as constructed
InitialSun(t) ==
    LET sunDirection == SunDirection(t)
    IN  [ light |-> MultiplyWhole(sunDirection, LightDistance),
          normal |-> Negate(sunDirection),
          constant |-> 0 ]

\* updateSunPosition copying the sun direction into the normal unnegated
updateSunPositionNoNegate(t) ==
    LET sunDirection == SunDirection(t)
    IN  [ light |-> MultiplyWhole(sunDirection, LightDistance),
          normal |-> sunDirection ]

\* updateSunPosition, lines 205-238, for the time read from the clock
updateSunPosition(t) ==
    LET sunDirection == SunDirection(t)
    IN  [ light |-> MultiplyWhole(sunDirection, LightDistance),
          normal |-> Negate(sunDirection) ]

\* ButtonDisabled without the test of the table
ButtonDisabledNoTable(table, dep, arr) ==
    Len(dep) # 3 \/ Len(arr) # 3

\* the disabled attribute of the button, line 413
ButtonDisabled(table, dep, arr) ==
    table = Null \/ Len(dep) # 3 \/ Len(arr) # 3

\* calculateFlight without the test of the arrival: an undefined arrival
\* reaches setFlightPath
calculateFlightNoArrivalCheck(table, dep, arr) ==
    IF table = Null
    THEN [ log |-> "Airports not loaded yet", set |-> Null ]
    ELSE IF dep \notin DOMAIN table[1]
    THEN [ log |-> "Departure airport not found", set |-> Null ]
    ELSE [ log |-> "Flight from",
           set |-> Some([departure |-> table[1][dep],
                         arrival |-> IF arr \in DOMAIN table[1]
                                     THEN table[1][arr]
                                     ELSE [name |-> <<>>, city |-> <<>>,
                                           lat |-> NaN, lon |-> NaN]]) ]

\* calculateFlight, lines 355-380: what it logs, and the value it passes
\* to setFlightPath (Null when it returns before)
calculateFlight(table, dep, arr) ==
    IF table = Null
    THEN [ log |-> "Airports not loaded yet", set |-> Null ]
    ELSE IF dep \notin DOMAIN table[1]
    THEN [ log |-> "Departure airport not found", set |-> Null ]
    ELSE IF arr \notin DOMAIN table[1]
    THEN [ log |-> "Arrival airport not found", set |-> Null ]
    ELSE [ log |-> "Flight from",
           set |-> Some([departure |-> table[1][dep], arrival |-> table[1][arr]]) ]

\* FlightPathEffect without the removal of the previous line
FlightPathEffectNoRemove(path, scene, ref, gone, count) ==
    IF path = Null
    THEN [ scene |-> scene, ref |-> ref, gone |-> gone, count |-> count ]
    ELSE LET line == [ id |-> count + 1,
                       points |-> GreatCircle(path[1].departure, path[1].arrival).points ]
         IN  [ scene |-> scene \cup {line},
               ref |-> Some(line),
               gone |-> gone,
               count |-> count + 1 ]

\* the flight path effect, lines 281-353, run for a flightPath that changed:
\* the scene, the ref, the disposed objects and the number of lines after it
FlightPathEffect(path, scene, ref, gone, count) ==
    IF path = Null
    THEN [ scene |-> scene, ref |-> ref, gone |-> gone, count |-> count ]
    ELSE LET line == [ id |-> count + 1,
                       points |-> GreatCircle(path[1].departure, path[1].arrival).points ]
             kept == IF ref # Null THEN scene \ {ref[1]} ELSE scene
         IN  [ scene |-> kept \cup {line},
               ref |-> Some(line),
               gone |-> IF ref # Null THEN gone \cup {ref[1].id} ELSE gone,
               count |-> count + 1 ]

\* the component after its first render and the mount effect up to line 203,
\* with the clock at t
Constructed(t) ==
    /\ airports = Null
    /\ fetchState = "pending"
    /\ departureCode = <<>>
    /\ arrivalCode = <<>>
    /\ flightPath = Null
    /\ flightLineRef = Null
    /\ sceneLines = {}
    /\ disposed = {}
    /\ lineCount = 0
    /\ lastTrigger = Null
    /\ console = ""
    /\ mounted = TRUE
    /\ rendererDisposed = FALSE
    /\ resizeListener = FALSE
    /\ loopStarted = FALSE
    /\ rafPending = FALSE
    /\ now = t
    /\ startTime = t
    /\ simulatedTime = t
    /\ sunTime = t
    /\ sunLightPosition = InitialSun(t).light
    /\ clipNormal = InitialSun(t).normal
    /\ clipConstant = InitialSun(t).constant
    /\ lateFrames = 0
    /\ lateRenders = 0

Init ==
    /\ \E t \in StartTimes : Constructed(t)
    /\ pIn = Null
    /\ pOut = Null

Saturate(n) == IF n < MaxLate THEN n + 1 ELSE n

\* the body of animate, lines 241-260, with the clock at t
AnimateBody(t) ==
    /\ rafPending' = TRUE
    /\ now' = t
    /\ simulatedTime' = IF mounted THEN t ELSE simulatedTime
    /\ sunTime' = t
    /\ sunLightPosition' = updateSunPosition(t).light
    /\ clipNormal' = updateSunPosition(t).normal
    /\ lateFrames' = IF mounted THEN lateFrames ELSE Saturate(lateFrames)
    /\ lateRenders' = IF rendererDisposed THEN Saturate(lateRenders) ELSE lateRenders

ClockValues == { t \in now..(now + 1) : t <= startTime + MaxElapsed }

\* lines 262-271: the first call of animate, and the resize listener
StartLoop ==
    /\ ~loopStarted
    /\ loopStarted' = TRUE
    /\ resizeListener' = TRUE
    /\ \E t \in ClockValues : AnimateBody(t)
    /\ UNCHANGED <<airports, fetchState, departureCode, arrivalCode, flightPath,
                   flightLineRef, sceneLines, disposed, lineCount, lastTrigger,
                   console, mounted, rendererDisposed, startTime, clipConstant,
                   pIn, pOut>>

\* a callback of requestAnimationFrame
Frame ==
    /\ loopStarted
    /\ rafPending
    /\ \E t \in ClockValues : AnimateBody(t)
    /\ UNCHANGED <<airports, fetchState, departureCode, arrivalCode, flightPath,
                   flightLineRef, sceneLines, disposed, lineCount, lastTrigger,
                   console, mounted, rendererDisposed, resizeListener, loopStarted,
                   startTime, clipConstant, pIn, pOut>>

\* lines 25-49: the response arrives and is parsed; React drops a state
\* update of a component that was unmounted
FetchComplete ==
    /\ loopStarted
    /\ fetchState = "pending"
    /\ \E rows \in MainDatasets :
          airports' = IF mounted THEN Some(ParseAirports(DataText(rows))) ELSE airports
    /\ fetchState' = "ok"
    /\ console' = "Loaded airports"
    /\ UNCHANGED <<departureCode, arrivalCode, flightPath, flightLineRef, sceneLines,
                   disposed, lineCount, lastTrigger, mounted, rendererDisposed,
                   resizeListener, loopStarted, rafPending, startTime, now,
                   simulatedTime, sunTime, sunLightPosition, clipNormal, clipConstant,
                   lateFrames, lateRenders, pIn, pOut>>

\* FetchFail leaving an empty table in place of null
FetchFailEmptyTable ==
    /\ loopStarted
    /\ fetchState = "pending"
    /\ fetchState' = "failed"
    /\ airports' = Some(<<>>)
    /\ console' = "Error loading airports"
    /\ UNCHANGED <<departureCode, arrivalCode, flightPath, flightLineRef,
                   sceneLines, disposed, lineCount, lastTrigger, mounted,
                   rendererDisposed, resizeListener, loopStarted, rafPending,
                   startTime, now, simulatedTime, sunTime, sunLightPosition,
                   clipNormal, clipConstant, lateFrames, lateRenders, pIn, pOut>>

\* line 50: the fetch, or the reading of its body, is rejected
FetchFail ==
    /\ loopStarted
    /\ fetchState = "pending"
    /\ fetchState' = "failed"
    /\ console' = "Error loading airports"
    /\ UNCHANGED <<airports, departureCode, arrivalCode, flightPath, flightLineRef,
                   sceneLines, disposed, lineCount, lastTrigger, mounted,
                   rendererDisposed, resizeListener, loopStarted, rafPending,
                   startTime, now, simulatedTime, sunTime, sunLightPosition,
                   clipNormal, clipConstant, lateFrames, lateRenders, pIn, pOut>>

\* line 398
SetDepartureCode ==
    /\ loopStarted
    /\ mounted
    /\ \E v \in InputValues : departureCode' = ToUpperCase(v)
    /\ UNCHANGED <<airports, fetchState, arrivalCode, flightPath, flightLineRef,
                   sceneLines, disposed, lineCount, lastTrigger, console, mounted,
                   rendererDisposed, resizeListener, loopStarted, rafPending,
                   startTime, now, simulatedTime, sunTime, sunLightPosition,
                   clipNormal, clipConstant, lateFrames, lateRenders, pIn, pOut>>

\* line 408
SetArrivalCode ==
    /\ loopStarted
    /\ mounted
    /\ \E v \in InputValues : arrivalCode' = ToUpperCase(v)
    /\ UNCHANGED <<airports, fetchState, departureCode, flightPath, flightLineRef,
                   sceneLines, disposed, lineCount, lastTrigger, console, mounted,
                   rendererDisposed, resizeListener, loopStarted, rafPending,
                   startTime, now, simulatedTime, sunTime, sunLightPosition,
                   clipNormal, clipConstant, lateFrames, lateRenders, pIn, pOut>>

\* a click on the enabled button: calculateFlight, and, when it set
\* flightPath, the flight path effect, which React flushes for the new value
\* before any other handler runs
ClickCalculate ==
    /\ loopStarted
    /\ mounted
    /\ ~ButtonDisabled(airports, departureCode, arrivalCode)
    /\ LET r == calculateFlight(airports, departureCode, arrivalCode)
           e == FlightPathEffect(r.set, sceneLines, flightLineRef, disposed, lineCount)
       IN  /\ r.set # Null => lineCount < MaxLines
           /\ console' = r.log
           /\ flightPath' = IF r.set # Null THEN r.set ELSE flightPath
           /\ lastTrigger' = IF r.set # Null
                             THEN Some(<<departureCode, arrivalCode>>)
                             ELSE lastTrigger
           /\ sceneLines' = e.scene
           /\ flightLineRef' = e.ref
           /\ disposed' = e.gone
           /\ lineCount' = e.count
    /\ UNCHANGED <<airports, fetchState, departureCode, arrivalCode, mounted,
                   rendererDisposed, resizeListener, loopStarted, rafPending,
                   startTime, now, simulatedTime, sunTime, sunLightPosition,
                   clipNormal, clipConstant, lateFrames, lateRenders, pIn, pOut>>

\* the cleanup of the mount effect, lines 274-277
Teardown ==
    /\ loopStarted
    /\ mounted
    /\ mounted' = FALSE
    /\ resizeListener' = FALSE
    /\ rendererDisposed' = TRUE
    /\ UNCHANGED <<airports, fetchState, departureCode, arrivalCode, flightPath,
                   flightLineRef, sceneLines, disposed, lineCount, lastTrigger,
                   console, loopStarted, rafPending, startTime, now, simulatedTime,
                   sunTime, sunLightPosition, clipNormal, clipConstant, lateFrames,
                   lateRenders, pIn, pOut>>

Next ==
    \/ StartLoop
    \/ Frame
    \/ FetchComplete
    \/ FetchFail
    \/ SetDepartureCode
    \/ SetArrivalCode
    \/ ClickCalculate
    \/ Teardown

Spec == Init /\ [][Next]_vars

(***************************************************************************)
(* The parse as a function of the dataset.                                 *)
(***************************************************************************)
mainVars == <<airports, fetchState, departureCode, arrivalCode, flightPath,
              flightLineRef, sceneLines, disposed, lineCount, lastTrigger, console,
              mounted, rendererDisposed, resizeListener, loopStarted, rafPending,
              startTime, now, simulatedTime, sunTime, sunLightPosition, clipNormal,
              clipConstant, lateFrames, lateRenders>>

InitParse ==
    /\ Constructed(CHOOSE t \in StartTimes : TRUE)
    /\ pIn \in Datasets
    /\ pOut = Null

ParseStep ==
    /\ pOut = Null
    /\ pOut' = Some(ParseAirports(DataText(pIn)))
    /\ UNCHANGED <<mainVars, pIn>>

SpecParse == InitParse /\ [][ParseStep]_vars

(***************************************************************************)
(* The great-circle interpolation as a function of the two end points.     *)
(***************************************************************************)
Latitudes == {-900, 0, 406, 900, NaN}
Longitudes == {-1800, -737, 0, 1800}
GeoPoints == [lat : Latitudes, lon : Longitudes]

InitSlerp ==
    /\ Constructed(CHOOSE t \in StartTimes : TRUE)
    /\ pIn \in [departure : GeoPoints, arrival : GeoPoints]
    /\ pOut = Null

Interpolate ==
    /\ pOut = Null
    /\ pOut' = Some(GreatCircle(pIn.departure, pIn.arrival))
    /\ UNCHANGED <<mainVars, pIn>>

SpecSlerp == InitSlerp /\ [][Interpolate]_vars

(***************************************************************************)
(* Properties.                                                             *)
(***************************************************************************)
Resolves(code) == airports # Null /\ code \in DOMAIN airports[1]

\* C1: while the airports table is unset the button is disabled,
\* calculateFlight would return without a value for setFlightPath, and no
\* flight path or flight line exists.
C1_DisabledUntilLoaded ==
    airports = Null =>
        /\ ButtonDisabled(airports, departureCode, arrivalCode)
        /\ calculateFlight(airports, departureCode, arrivalCode).set = Null
        /\ flightPath = Null
        /\ flightLineRef = Null
        /\ sceneLines = {}
        /\ lineCount = 0

\* two three-letter codes are entered while the fetch is still pending
C1_Witness ==
    /\ airports = Null
    /\ fetchState = "pending"
    /\ Len(departureCode) = 3
    /\ Len(arrivalCode) = 3

\* C2: after a failed fetch the failure stays the last thing logged, the
\* fetch is never tried again, the table stays unset, the button stays
\* disabled whatever the codes are, no flight path appears, and the frame
\* loop stays scheduled and able to run.
C2_FailureOnlyLogged ==
    /\ [](fetchState = "failed" =>
            /\ airports = Null
            /\ console = "Error loading airports"
            /\ ButtonDisabled(airports, departureCode, arrivalCode)
            /\ flightPath = Null
            /\ sceneLines = {}
            /\ rafPending
            /\ ENABLED Frame)
    /\ [][fetchState = "failed" => fetchState' = "failed"]_vars

\* the fetch failed, two three-letter codes were entered afterwards and a
\* later frame ran
C2_Witness ==
    /\ fetchState = "failed"
    /\ Len(departureCode) = 3
    /\ Len(arrivalCode) = 3
    /\ sunTime > startTime

\* C3: a click with the table loaded and a code that is no key of the table
\* leaves flightPath, the displayed line, the scene and the disposed objects
\* as they were, creates no line, and leaves the frame loop scheduled.
C3_UnknownCodeNoOp ==
    [][(/\ ClickCalculate
        /\ airports # Null
        /\ ~(Resolves(departureCode) /\ Resolves(arrivalCode)))
       => /\ flightPath' = flightPath
          /\ flightLineRef' = flightLineRef
          /\ sceneLines' = sceneLines
          /\ disposed' = disposed
          /\ lineCount' = lineCount
          /\ rafPending']_vars

\* a click with an unknown code was made while a line was displayed
C3_Witness ==
    /\ console \in {"Departure airport not found", "Arrival airport not found"}
    /\ flightLineRef # Null
    /\ sceneLines = {flightLineRef[1]}

\* C4: the scene holds at most one flight line; once a trigger resolved
\* both codes it holds exactly the line computed for the pair of the last
\* such trigger, and every line created before it was removed and disposed.
C4_SingleLatestLine ==
    /\ Cardinality(sceneLines) <= 1
    /\ lastTrigger = Null => sceneLines = {} /\ flightLineRef = Null
    /\ lastTrigger # Null =>
          /\ flightLineRef # Null
          /\ sceneLines = {flightLineRef[1]}
          /\ flightLineRef[1].id = lineCount
          /\ flightLineRef[1].points =
                GreatCircle(airports[1][lastTrigger[1][1]],
                            airports[1][lastTrigger[1][2]]).points
          /\ disposed = 1..(lineCount - 1)

\* a second line replaced a first one computed for another pair
C4_Witness ==
    /\ lineCount = 2
    /\ Cardinality(sceneLines) = 1
    /\ lastTrigger # Null
    /\ lastTrigger[1][1] # lastTrigger[1][2]

\* a row, as the pieces between its commas with the quotes removed
RowCode(row) == StripQuotes(row[5])
WellFormed(row) == Len(row) >= 8 /\ Len(RowCode(row)) = 3
RowRecord(row) ==
    [ name |-> StripQuotes(row[2]), city |-> StripQuotes(row[3]),
      lat |-> ParseFloat(StripQuotes(row[7])), lon |-> ParseFloat(StripQuotes(row[8])) ]

IsLetter(c) == \E j \in 1..Len(Upper) : c = Upper[j] \/ c = Lower[j]
ThreeLetters(row) ==
    /\ Len(row) >= 8
    /\ Len(RowCode(row)) = 3
    /\ \A j \in 1..3 : IsLetter(RowCode(row)[j])

LastRowOf(rows, k) ==
    CHOOSE i \in 1..Len(rows) :
        /\ WellFormed(rows[i]) /\ RowCode(rows[i]) = k
        /\ \A j \in (i + 1)..Len(rows) : ~(WellFormed(rows[j]) /\ RowCode(rows[j]) = k)

\* C6: the parsed table has exactly the codes of the accepted rows as its
\* keys, and holds for each the record of the last accepted row with it.
C6_LastDuplicateWins ==
    pOut # Null =>
        LET accepted == {RowCode(pIn[i]) : i \in {j \in 1..Len(pIn) : WellFormed(pIn[j])}}
        IN  /\ DOMAIN pOut[1] = accepted
            /\ Cardinality(DOMAIN pOut[1]) = Cardinality(accepted)
            /\ \A k \in accepted : pOut[1][k] = RowRecord(pIn[LastRowOf(pIn, k)])

\* two accepted rows with one code and different records were parsed
C6_Witness ==
    /\ pOut # Null
    /\ Len(pIn) >= 2
    /\ WellFormed(pIn[1])
    /\ WellFormed(pIn[2])
    /\ RowCode(pIn[1]) = RowCode(pIn[2])
    /\ RowRecord(pIn[1]) # RowRecord(pIn[2])
    /\ pOut[1][RowCode(pIn[1])] = RowRecord(pIn[2])

\* C7: as constructed and after every frame, the clip plane has offset 0
\* and the negated sun direction of the frame's timestamp as its normal,
\* and the light stands at 10 times that sun direction.
C7_TerminatorFollowsSun ==
    /\ clipConstant = 0
    /\ clipNormal = Negate(SunDirection(sunTime))
    /\ sunLightPosition = MultiplyWhole(SunDirection(sunTime), 10)

\* a frame ran for a later hour than the one the scene was constructed in
C7_Witness ==
    /\ loopStarted
    /\ sunTime > startTime
    /\ SunDirection(sunTime) # SunDirection(startTime)

Finite(p) == p.lat # NaN /\ p.lon # NaN

\* C8: for identical end points with finite coordinates the angle is 0, and
\* whenever the angle is 0 the interpolation yields NumPoints + 1 points,
\* each the start vector scaled to the path radius, and forms no quotient
\* by sin(angle).
C8_DegeneratePath ==
    pOut # Null =>
        /\ (pIn.departure = pIn.arrival /\ Finite(pIn.departure)) => pOut[1].angle = 0
        /\ pOut[1].angle = 0 =>
              /\ Len(pOut[1].points) = 101
              /\ \A k \in 1..Len(pOut[1].points) :
                    /\ pOut[1].points[k] =
                          MultiplyScalar(Normalize(pOut[1].start), PathRadius)
                    /\ \A c \in 1..3 : pOut[1].points[k][c] # NaN
              /\ pOut[1].quotients = 0

\* the path from a point off the poles and axes to itself was computed
C8_Witness ==
    /\ pOut # Null
    /\ pIn.departure = pIn.arrival
    /\ pIn.departure = [lat |-> 406, lon |-> -737]
    /\ pOut[1].angle = 0

\* C9: of two frames that share a solar noon, the later one computes a
\* subsolar longitude that is numerically smaller (further west).
C9_LongitudeMovesWest ==
    [][(sunTime' > sunTime /\ SolarNoon(sunTime') = SolarNoon(sunTime))
       => SubsolarLongitude(sunTime') < SubsolarLongitude(sunTime)]_vars

\* C10: once the cleanup ran, no frame is processed, nothing is rendered
\* with the disposed renderer, no state of the component or of the scene is
\* updated, and a fetch that completes does not populate the table.
C10_NothingAfterTeardown ==
    [][~mounted =>
          /\ lateFrames' = lateFrames
          /\ lateRenders' = lateRenders
          /\ sunTime' = sunTime
          /\ sunLightPosition' = sunLightPosition
          /\ clipNormal' = clipNormal
          /\ simulatedTime' = simulatedTime
          /\ airports' = airports]_vars

====
